---- MODULE Spec2Model ----
(***************************************************************************)
(* A model of rfp_monitor.py: the candidate filter (fetch_source,          *)
(* trade_drop), the seen-store differ (diff_new_items), the semantic       *)
(* classifier stage (env_flag, llm_enabled, llm_filter) and the run loop   *)
(* of main with the persisted seen-state file.                             *)
(*                                                                         *)
(* Python strings whose characters the code inspects (titles, hrefs,       *)
(* environment values, keywords) are sequences of one-character strings.   *)
(* Python lists are sequences, index i of Python being i + 1 here.         *)
(***************************************************************************)
EXTENDS Integers, Sequences, FiniteSets, TLC

VARIABLES
    pc,                   \* position of the running operation
    call,                 \* inputs and result of the last function applied
    seen,                 \* the in-memory SeenStore (main's `seen`)
    seen_file,            \* the persisted seen.json
    run,                  \* main's locals and the history of earlier runs
    ncalls                \* number of runs of main started so far

vars == <<pc, call, seen, seen_file, run, ncalls>>

(***************************************************************************)
(* Bounds of the model.                                                    *)
(***************************************************************************)
MaxItems == 2             \* longest candidate list handed to llm_filter
MaxVerdicts == 2          \* longest 'results' list of a classifier response
MaxRuns == 2              \* runs of main in a row on one seen.json
MaxLinks == 2             \* most <a href> elements on a fetched page
MaxSeen == 1              \* longest entry of an initial SeenStore

(***************************************************************************)
(* str helpers: str.lower, str.strip, str.split, " ".join, `in`.           *)
(***************************************************************************)
UPPER_TO_LOWER ==
    [c \in {"A","B","C","D","E","F","G","H","I","J","K","L","M",
            "N","O","P","Q","R","S","T","U","V","W","X","Y","Z"} |->
        CASE c = "A" -> "a" [] c = "B" -> "b" [] c = "C" -> "c" [] c = "D" -> "d"
          [] c = "E" -> "e" [] c = "F" -> "f" [] c = "G" -> "g" [] c = "H" -> "h"
          [] c = "I" -> "i" [] c = "J" -> "j" [] c = "K" -> "k" [] c = "L" -> "l"
          [] c = "M" -> "m" [] c = "N" -> "n" [] c = "O" -> "o" [] c = "P" -> "p"
          [] c = "Q" -> "q" [] c = "R" -> "r" [] c = "S" -> "s" [] c = "T" -> "t"
          [] c = "U" -> "u" [] c = "V" -> "v" [] c = "W" -> "w" [] c = "X" -> "x"
          [] c = "Y" -> "y" [] c = "Z" -> "z"]

LowerChar(c) == IF c \in DOMAIN UPPER_TO_LOWER THEN UPPER_TO_LOWER[c] ELSE c

\* str.lower()
Lower(s) == [k \in 1..Len(s) |-> LowerChar(s[k])]

\* the characters str.split() and str.strip() treat as whitespace
IsSpace(c) == c \in {" ", "\t", "\n", "\r"}

RECURSIVE LStrip(_)
LStrip(s) == IF s # <<>> /\ IsSpace(Head(s)) THEN LStrip(Tail(s)) ELSE s

RECURSIVE RStrip(_)
RStrip(s) ==
    IF s # <<>> /\ IsSpace(s[Len(s)]) THEN RStrip(SubSeq(s, 1, Len(s) - 1)) ELSE s

\* str.strip()
Strip(s) == RStrip(LStrip(s))

\* str.split(): the maximal runs of non-whitespace characters, in order.
\* `cur` is the word being read, `acc` the words read so far.
RECURSIVE SplitFrom(_, _, _)
SplitFrom(s, cur, acc) ==
    IF s = <<>>
    THEN IF cur = <<>> THEN acc ELSE Append(acc, cur)
    ELSE IF IsSpace(Head(s))
         THEN SplitFrom(Tail(s), <<>>, IF cur = <<>> THEN acc ELSE Append(acc, cur))
         ELSE SplitFrom(Tail(s), Append(cur, Head(s)), acc)

Split(s) == SplitFrom(s, <<>>, <<>>)

\* " ".join(words)
RECURSIVE JoinSpace(_)
JoinSpace(words) ==
    IF words = <<>> THEN <<>>
    ELSE IF Len(words) = 1 THEN words[1]
    ELSE words[1] \o <<" ">> \o JoinSpace(Tail(words))

\* needle in hay (substring test; the empty needle is in every string)
Contains(hay, needle) ==
    \E k \in 1..(Len(hay) - Len(needle) + 1) :
        SubSeq(hay, k, k + Len(needle) - 1) = needle

\* any(f(x) for x in seq) over the elements of a sequence
Range(seq) == {seq[k] : k \in 1..Len(seq)}

\* {item["url"] for item in items}
UrlsIn(items) == {items[k].url : k \in 1..Len(items)}

(***************************************************************************)
(* Program constants.                                                      *)
(***************************************************************************)
TRUTHY_ENV == { <<"1">>, <<"t", "r", "u", "e">>, <<"y", "e", "s">>, <<"o", "n">> }
FALSY_ENV == { <<"0">>, <<"f", "a", "l", "s", "e">>, <<"n", "o">>, <<"o", "f", "f">> }

TRADE_DROP_WORDS ==
    << <<"a", "s", "p", "h", "a", "l", "t">>,
       <<"p", "a", "v", "i", "n", "g">>,
       <<"p", "l", "o", "w">>,
       <<"s", "n", "o", "w", " ", "r", "e", "m", "o", "v", "a", "l">>,
       <<"h", "v", "a", "c">>,
       <<"p", "l", "u", "m", "b", "i", "n", "g">>,
       <<"f", "l", "o", "o", "r", "i", "n", "g">>,
       <<"r", "o", "o", "f">>,
       <<"r", "o", "o", "f", "i", "n", "g">>,
       <<"j", "a", "n", "i", "t", "o", "r", "i", "a", "l">>,
       <<"c", "l", "e", "a", "n", "i", "n", "g">>,
       <<"w", "e", "l", "d", "i", "n", "g">>,
       <<"f", "l", "e", "e", "t">>,
       <<"t", "r", "u", "c", "k">>,
       <<"b", "u", "s">>,
       <<"v", "e", "h", "i", "c", "l", "e">>,
       <<"t", "r", "e", "e", " ", "r", "e", "m", "o", "v", "a", "l">>,
       <<"l", "a", "n", "d", "s", "c", "a", "p", "i", "n", "g">>,
       <<"f", "e", "n", "c", "i", "n", "g">>,
       <<"d", "o", "o", "r", "s">>,
       <<"w", "i", "n", "d", "o", "w", "s">>,
       <<"s", "u", "p", "p", "l", "i", "e", "s">>,
       <<"p", "a", "r", "t", "s">>,
       <<"h", "a", "r", "d", "w", "a", "r", "e">>,
       <<"c", "o", "n", "c", "r", "e", "t", "e">>,
       <<"d", "e", "m", "o", "l", "i", "t", "i", "o", "n">>,
       <<"c", "o", "n", "s", "t", "r", "u", "c", "t", "i", "o", "n">>,
       <<"r", "o", "a", "d">>,
       <<"p", "a", "v", "e", "m", "e", "n", "t">> >>

\* the navigation/UI substrings fetch_source skips
NAV_SKIP ==
    << <<"/", "l", "o", "g", "i", "n">>,
       <<"/", "c", "r", "e", "a", "t", "e">>,
       <<"/", "v", "e", "n", "d", "o", "r", "/">>,
       <<"/", "f", "r", "a", "n", "ç", "a", "i", "s">>,
       <<"b", "i", "d", "s", "a", "n", "d", "t", "e", "n", "d", "e", "r", "s", ".", "c", "a", "/", "#">>,
       <<"j", "a", "v", "a", "s", "c", "r", "i", "p", "t", ":">>,
       <<"/", "h", "o", "m", "e", "/", "b", "i", "d", "s", "h", "o", "m", "e", "p", "a", "g", "e">>,
       <<"/", "c", "o", "n", "t", "a", "c", "t", "-">>,
       <<"/", "p", "r", "i", "v", "a", "c", "y">>,
       <<"/", "t", "e", "r", "m", "s">>,
       <<"/", "s", "u", "p", "p", "l", "i", "e", "r">>,
       <<"/", "b", "u", "y", "e", "r">>,
       <<"/", "p", "l", "a", "n", "s">>,
       <<"/", "d", "e", "m", "o">>,
       <<"/", "s", "u", "b", "s", "c", "r", "i", "b", "e">> >>

(***************************************************************************)
(* env_flag and llm_enabled.  An environment variable is                   *)
(* [set |-> BOOLEAN, raw |-> characters]; os.getenv gives None when it is  *)
(* not set.  Optional[bool] is "True", "False" or "None".                  *)
(***************************************************************************)
env_flag(var) ==
    IF ~var.set THEN "None"
    ELSE LET normalized == Lower(Strip(var.raw))
         IN  IF normalized \in TRUTHY_ENV THEN "True"
             ELSE IF normalized \in FALSY_ENV THEN "False"
             ELSE "None"

\* a slip in llm_enabled: the YAML setting, when present, beats the override
llm_enabled_yaml_first(llm_cfg, env) ==
    IF llm_cfg.enabled # "None" THEN llm_cfg.enabled = "True"
    ELSE env_flag(env.LLM_ENABLED) = "True"

\* llm_cfg.enabled is the YAML value of 'enabled': "True", "False", or "None"
\* when the key is missing; bool(None) is False.
llm_enabled(llm_cfg, env) ==
    LET env_value == env_flag(env.LLM_ENABLED)
    IN  IF env_value # "None" THEN env_value = "True"
        ELSE llm_cfg.enabled = "True"

(***************************************************************************)
(* llm_filter.  A call either returns a list or raises; `called` records   *)
(* whether client.chat.completions.create was invoked.                     *)
(*                                                                         *)
(* The classifier backend answers with                                     *)
(*   kind = "transport_error"  create(...) raises                          *)
(*   kind = "content_none"     message.content is None                     *)
(*   kind = "not_json"         json.loads(content) raises                  *)
(*   kind = "json"             json.loads(content) gives `data`            *)
(* A JSON value is a record tagged by t; a verdict record that is a JSON   *)
(* object has index (has_index FALSE: missing or null), keep and reason.   *)
(***************************************************************************)
Returned(v, called) == [raised |-> FALSE, ret |-> v, called |-> called]
Raised(called) == [raised |-> TRUE, ret |-> <<>>, called |-> called]

\* dict(items[idx]) with item["reason"] = reason
AttachReason(item, reason) ==
    [title |-> item.title, url |-> item.url, reason |-> reason]

\* lines 285-296: the loop over the verdict records, in their order
RECURSIVE keep_loop(_, _, _, _)
keep_loop(recs, items, rationale, keep_items) ==
    IF recs = <<>> THEN keep_items
    ELSE LET rec == Head(recs)
         IN  IF rec.t # "object" \/ ~rec.has_index
             THEN \* rec.get or int(...) raises: except Exception: continue
                  keep_loop(Tail(recs), items, rationale, keep_items)
             ELSE IF 0 <= rec.index /\ rec.index < Len(items) /\ rec.keep
                  THEN LET item == items[rec.index + 1]
                           out == IF rationale /\ rec.reason # ""
                                  THEN AttachReason(item, rec.reason)
                                  ELSE item
                       IN  keep_loop(Tail(recs), items, rationale,
                                     Append(keep_items, out))
                  ELSE keep_loop(Tail(recs), items, rationale, keep_items)

EmptyResults == [t |-> "list", recs |-> <<>>]

llm_filter(items, llm_cfg, env, sdk, backend) ==
    IF items = <<>> THEN Returned(items, FALSE)
    ELSE IF ~llm_enabled(llm_cfg, env) THEN Returned(items, FALSE)
    ELSE IF ~env.OPENAI_API_KEY THEN Returned(items, FALSE)
    ELSE IF ~sdk THEN Returned(items, FALSE)
    ELSE IF backend.kind \in {"transport_error", "not_json"}
         THEN Returned(items, TRUE)
    ELSE LET results ==
                 IF backend.kind = "content_none" THEN EmptyResults   \* "{}"
                 ELSE IF backend.data.t = "object"
                      THEN IF backend.data.has_results
                           THEN backend.data.results
                           ELSE EmptyResults
                      ELSE EmptyResults
         IN  IF results.t \in {"null", "number"}
             THEN Raised(TRUE)            \* for rec in results: TypeError
             ELSE IF results.t = "string"
                  THEN Returned(<<>>, TRUE)  \* every rec is a str: continue
                  ELSE Returned(keep_loop(results.recs, items,
                                          llm_cfg.rationale, <<>>), TRUE)

(***************************************************************************)
(* Inputs of llm_filter.                                                   *)
(***************************************************************************)
SeqsUpTo(S, n) == UNION {[1..k -> S] : k \in 0..n}

LlmCandidates ==
    { [title |-> "Portal build", url |-> "https://x.com"],
      [title |-> "LMS upgrade", url |-> "https://y.com"] }

\* values of the LLM_ENABLED environment variable
EnvUnset == [set |-> FALSE, raw |-> <<>>]
EnvValues ==
    { <<"1">>, <<"T", "R", "U", "E">>, <<"Y", "e", "s">>, <<" ", "o", "n", " ">>,
      <<"0">>, <<"F", "a", "l", "s", "e">>, <<"N", "O">>, <<"o", "f", "f", "\n">>,
      <<"m", "a", "y", "b", "e">>, <<"2">>, <<>>, <<"o", " ", "n">> }
EnvVars == {EnvUnset} \cup {[set |-> TRUE, raw |-> r] : r \in EnvValues}

Reasons == {"", "digital"}

VerdictRecs ==
    { [t |-> "string", has_index |-> FALSE, index |-> 0, keep |-> FALSE, reason |-> ""],
      [t |-> "object", has_index |-> FALSE, index |-> 0, keep |-> TRUE, reason |-> ""] }
    \cup [t : {"object"}, has_index : {TRUE}, index : -1..MaxItems,
          keep : BOOLEAN, reason : Reasons]

ResultsValues ==
    { [t |-> x, recs |-> <<>>] : x \in {"null", "number", "string"} }
    \cup { [t |-> "list", recs |-> r] : r \in SeqsUpTo(VerdictRecs, MaxVerdicts) }

NoData == [t |-> "null", has_results |-> FALSE, results |-> EmptyResults]

JsonData ==
    { [t |-> x, has_results |-> FALSE, results |-> EmptyResults] :
          x \in {"null", "array", "object"} }
    \cup { [t |-> "object", has_results |-> TRUE, results |-> r] : r \in ResultsValues }

Backends ==
    { [kind |-> k, data |-> NoData] : k \in {"transport_error", "content_none", "not_json"} }
    \cup { [kind |-> "json", data |-> d] : d \in JsonData }

\* one well-formed answer: a verdict keep=true for every index, in index order
KeepAll(n) ==
    [kind |-> "json",
     data |-> [t |-> "object", has_results |-> TRUE,
               results |-> [t |-> "list",
                            recs |-> [k \in 1..n |->
                                [t |-> "object", has_index |-> TRUE, index |-> k - 1,
                                 keep |-> TRUE, reason |-> ""]]]]]

IdleCall == [fn |-> "none"]

LlmCall(items, llm_cfg, env, sdk, backend) ==
    [fn |-> "llm_filter", items |-> items, llm_cfg |-> llm_cfg, env |-> env,
     sdk |-> sdk, backend |-> backend,
     enabled |-> llm_enabled(llm_cfg, env),
     result |-> llm_filter(items, llm_cfg, env, sdk, backend)]

InitLlm ==
    /\ pc = "idle"
    /\ call = IdleCall
    /\ seen = <<>>
    /\ seen_file = <<>>
    /\ run = <<>>
    /\ ncalls = 0

\* llm_filter under every setting of the toggle, key and SDK
LlmFilterConfigured ==
    /\ pc = "idle"
    /\ \E items \in SeqsUpTo(LlmCandidates, MaxItems),
          enabled \in {"True", "False", "None"},
          var \in EnvVars, key \in BOOLEAN, sdk \in BOOLEAN,
          fails \in BOOLEAN :
          call' = LlmCall(items,
                          [enabled |-> enabled, rationale |-> FALSE],
                          [LLM_ENABLED |-> var, OPENAI_API_KEY |-> key],
                          sdk,
                          IF fails THEN [kind |-> "transport_error", data |-> NoData]
                                   ELSE KeepAll(Len(items)))
    /\ pc' = "done"
    /\ UNCHANGED <<seen, seen_file, run, ncalls>>

\* llm_filter, enabled with a key and the SDK, under every backend answer
LlmFilterAnswered ==
    /\ pc = "idle"
    /\ \E items \in SeqsUpTo(LlmCandidates, MaxItems),
          rationale \in BOOLEAN, backend \in Backends :
          call' = LlmCall(items,
                          [enabled |-> "True", rationale |-> rationale],
                          [LLM_ENABLED |-> EnvUnset, OPENAI_API_KEY |-> TRUE],
                          TRUE, backend)
    /\ pc' = "done"
    /\ UNCHANGED <<seen, seen_file, run, ncalls>>

NextLlm == LlmFilterConfigured \/ LlmFilterAnswered

SpecLlm == InitLlm /\ [][NextLlm]_vars

(***************************************************************************)
(* diff_new_items.  The SeenStore is what json.load gave: a JSON value     *)
(* [t, m]; when t = "object", m maps source names to entries [t, urls],    *)
(* an entry with t = "list" being a list of URL strings.  A Source is      *)
(* [name, url, include_keywords, exclude_keywords].                        *)
(***************************************************************************)
Store(m) == [t |-> "object", m |-> m]
ListEntry(urls) == [t |-> "list", urls |-> urls]

\* every ordering of a finite set: what list(a_set) can give
Orderings(S) ==
    {f \in [1..Cardinality(S) -> S] : \A a, b \in DOMAIN f : f[a] = f[b] => a = b}

\* seen[name] = entry
Put(store, name, entry) ==
    Store([n \in DOMAIN store.m \cup {name} |->
               IF n = name THEN entry ELSE store.m[n]])

\* a slip in diff_new_items: the written entry forgets the known URLs
diff_new_items_forgets_known(source, items, seen_) ==
    LET known_urls == IF source.name \in DOMAIN seen_.m
                      THEN Range(seen_.m[source.name].urls) ELSE {}
        new_items == SelectSeq(items, LAMBDA item : item.url \notin known_urls)
    IN  [raised |-> FALSE, new_items |-> new_items, write |-> new_items # <<>>,
         all_urls |-> {new_items[k].url : k \in 1..Len(new_items)}]

\* a slip in diff_new_items: the filter tests the title instead of the URL
diff_new_items_by_title(source, items, seen_) ==
    LET known_urls == IF source.name \in DOMAIN seen_.m
                      THEN Range(seen_.m[source.name].urls) ELSE {}
        new_items == SelectSeq(items, LAMBDA item : item.title \notin known_urls)
    IN  [raised |-> FALSE, new_items |-> new_items, write |-> new_items # <<>>,
         all_urls |-> known_urls \cup {new_items[k].url : k \in 1..Len(new_items)}]

\* the value returned, whether seen[source.name] is assigned, and the set
\* all_urls is the list of; raised when seen.get or set(...) raises
diff_new_items(source, items, seen_) ==
    IF seen_.t # "object"
    THEN [raised |-> TRUE, new_items |-> <<>>, write |-> FALSE, all_urls |-> {}]
    ELSE IF source.name \in DOMAIN seen_.m /\ seen_.m[source.name].t # "list"
    THEN [raised |-> TRUE, new_items |-> <<>>, write |-> FALSE, all_urls |-> {}]
    ELSE LET known_urls == IF source.name \in DOMAIN seen_.m
                           THEN Range(seen_.m[source.name].urls) ELSE {}
             new_items == SelectSeq(items, LAMBDA item : item.url \notin known_urls)
         IN  [raised |-> FALSE, new_items |-> new_items, write |-> new_items # <<>>,
              all_urls |-> known_urls \cup
                           {new_items[k].url : k \in 1..Len(new_items)}]

\* a slip in lines 216-218: the new URLs are never recorded
SeenAfter_unrecorded(seen_, source, d) == {seen_}

\* the stores a diff_new_items call can leave behind
SeenAfter(seen_, source, d) ==
    IF d.write
    THEN {Put(seen_, source.name, ListEntry(order)) : order \in Orderings(d.all_urls)}
    ELSE {seen_}

(***************************************************************************)
(* Inputs of diff_new_items.                                               *)
(***************************************************************************)
DiffUrls == {"https://old.com", "https://new.com", "https://x.com"}

DiffCandidates ==
    { [title |-> "old", url |-> "https://old.com"],
      [title |-> "new", url |-> "https://new.com"],
      [title |-> "Item", url |-> "https://x.com"] }

DiffSources ==
    { [name |-> n, url |-> "https://example.com", include_keywords |-> <<>>,
       exclude_keywords |-> <<>>] : n \in {"Example", "Other"} }

\* the stores whose entries are lists of at most MaxSeen URLs
DiffStores ==
    UNION { { Store(m) : m \in [names -> {ListEntry(u) : u \in SeqsUpTo(DiffUrls, MaxSeen)}] } :
            names \in SUBSET {"Example", "Other"} }

DiffCall(source, items, before, d, after, repeat, first_ret) ==
    [fn |-> "diff_new_items", source |-> source, items |-> items,
     before |-> before, ret |-> d.new_items, write |-> d.write, after |-> after,
     repeat |-> repeat, first_ret |-> first_ret]

InitDiff ==
    /\ pc = "idle"
    /\ call = IdleCall
    /\ seen \in DiffStores
    /\ seen_file = <<>>
    /\ run = <<>>
    /\ ncalls = 0

\* new_items = diff_new_items(source, items, seen)
DiffNewItems ==
    /\ pc = "idle"
    /\ \E source \in DiffSources, items \in SeqsUpTo(DiffCandidates, MaxItems) :
          LET d == diff_new_items(source, items, seen)
          IN  \E after \in SeenAfter(seen, source, d) :
                  /\ seen' = after
                  /\ call' = DiffCall(source, items, seen, d, after, FALSE, <<>>)
    /\ pc' = "called"
    /\ UNCHANGED <<seen_file, run, ncalls>>

\* the same call again, on the store as the call before it left it
DiffNewItemsAgain ==
    /\ pc = "called"
    /\ ~call.repeat
    /\ LET d == diff_new_items(call.source, call.items, seen)
       IN  \E after \in SeenAfter(seen, call.source, d) :
               /\ seen' = after
               /\ call' = DiffCall(call.source, call.items, seen, d, after,
                                   TRUE, call.ret)
    /\ UNCHANGED <<pc, seen_file, run, ncalls>>

\* the caller takes the result; the store stays for the next call
DiffReturn ==
    /\ pc = "called"
    /\ pc' = "idle"
    /\ call' = IdleCall
    /\ UNCHANGED <<seen, seen_file, run, ncalls>>

NextDiff == DiffNewItems \/ DiffNewItemsAgain \/ DiffReturn

SpecDiff == InitDiff /\ [][NextDiff]_vars

(***************************************************************************)
(* normalize_text, trade_drop and fetch_source.  A page is                 *)
(* [ok, links]: ok is FALSE when requests.get or raise_for_status raises;  *)
(* links are the <a href> elements in document order, each                 *)
(* [text |-> a.get_text(" ", strip=True), href |-> urljoin(base, href)].   *)
(***************************************************************************)
normalize_text(text) == Lower(Strip(JoinSpace(Split(text))))

\* a slip in trade_drop: the title is searched as it is, not normalized
trade_drop_raw(title) ==
    \E word \in Range(TRADE_DROP_WORDS) : Contains(title, word)

trade_drop(title) ==
    LET hay == normalize_text(title)
    IN  \E word \in Range(TRADE_DROP_WORDS) : Contains(hay, word)

\* first position of character c in s, 0 when there is none
IndexOf(s, c) ==
    IF \E k \in 1..Len(s) : s[k] = c
    THEN CHOOSE k \in 1..Len(s) : s[k] = c /\ \A j \in 1..(k - 1) : s[j] # c
    ELSE 0

SchemeChars ==
    {"a","b","c","d","e","f","g","h","i","j","k","l","m","n","o","p","q","r",
     "s","t","u","v","w","x","y","z","0","1","2","3","4","5","6","7","8","9",
     "+","-","."}

\* urlparse(href): scheme (lowercased), netloc and fragment
urlparse(href) ==
    LET colon == IndexOf(href, ":")
        has_scheme == /\ colon > 1
                      /\ \A k \in 1..(colon - 1) : LowerChar(href[k]) \in SchemeChars
        rest == IF has_scheme THEN SubSeq(href, colon + 1, Len(href)) ELSE href
        hash == IndexOf(rest, "#")
        before_hash == IF hash > 0 THEN SubSeq(rest, 1, hash - 1) ELSE rest
        after_slashes == SubSeq(before_hash, 3, Len(before_hash))
        ends == {k \in 1..Len(after_slashes) : after_slashes[k] \in {"/", "?"}}
        stop == IF ends = {} THEN Len(after_slashes) + 1
                ELSE CHOOSE k \in ends : \A j \in ends : k <= j
    IN  [scheme |-> IF has_scheme THEN Lower(SubSeq(href, 1, colon - 1)) ELSE <<>>,
         netloc |-> IF Len(before_hash) >= 2 /\ SubSeq(before_hash, 1, 2) = <<"/", "/">>
                    THEN SubSeq(after_slashes, 1, stop - 1) ELSE <<>>,
         fragment |-> IF hash > 0 THEN SubSeq(rest, hash + 1, Len(rest)) ELSE <<>>]

HTTP_SCHEMES == { <<"h", "t", "t", "p">>, <<"h", "t", "t", "p", "s">> }

\* lines 157-177: TRUE when the loop body reaches matches.append for the link
link_matches(source, a) ==
    LET href == a.href
        parsed == urlparse(href)
        title == IF a.text # <<>> THEN a.text ELSE href
        haystack == normalize_text(title \o <<" ">> \o href)
        include == [k \in 1..Len(source.include_keywords) |->
                        Lower(source.include_keywords[k])]
        exclude == [k \in 1..Len(source.exclude_keywords) |->
                        Lower(source.exclude_keywords[k])]
    IN  /\ parsed.scheme \in HTTP_SCHEMES
        /\ parsed.netloc # <<>>
        /\ ~(href # <<>> /\ href[Len(href)] = "#")
        /\ parsed.fragment = <<>>
        /\ ~(include # <<>> /\ ~\E k \in Range(include) : Contains(haystack, k))
        /\ ~(exclude # <<>> /\ \E k \in Range(exclude) : Contains(haystack, k))
        /\ ~trade_drop(title)

link_item(a) ==
    [title |-> IF a.text # <<>> THEN a.text ELSE a.href, url |-> a.href]

\* lines 181-191: a navigation/UI link
is_navigation(m) ==
    \E skip \in Range(NAV_SKIP) : Contains(Lower(m.url), skip)

\* lines 197-202: the first item of every URL, in order
RECURSIVE unique_by_url(_, _, _)
unique_by_url(items, seen_urls, unique_matches) ==
    IF items = <<>> THEN unique_matches
    ELSE IF Head(items).url \notin seen_urls
         THEN unique_by_url(Tail(items), seen_urls \cup {Head(items).url},
                            Append(unique_matches, Head(items)))
         ELSE unique_by_url(Tail(items), seen_urls, unique_matches)

MapSeq(seq, Op(_)) == [k \in 1..Len(seq) |-> Op(seq[k])]

fetch_source(source, page) ==
    IF ~page.ok THEN <<>>
    ELSE LET matches == MapSeq(SelectSeq(page.links,
                                         LAMBDA a : link_matches(source, a)),
                               link_item)
             filtered_matches == SelectSeq(matches, LAMBDA m : ~is_navigation(m))
         IN  unique_by_url(filtered_matches, {}, <<>>)

(***************************************************************************)
(* Inputs of fetch_source.                                                 *)
(***************************************************************************)
T_PORTAL == <<"W", "e", "b", " ", "P", "o", "r", "t", "a", "l", " ", "D", "e", "v", "e", "l", "o", "p", "m", "e", "n", "t">>
T_ROAD == <<"R", "o", "a", "d", " ", "R", "e", "p", "a", "i", "r", " ", "S", "e", "r", "v", "i", "c", "e">>
T_SNOW == <<"S", "n", "o", "w", " ", " ", "R", "e", "m", "o", "v", "a", "l", " ", "R", "F", "P">>
T_LMS == <<"L", "M", "S", " ", "R", "F", "P">>
T_LOGIN == <<"L", "o", "g", "i", "n">>
T_MAIL == <<"E", "m", "a", "i", "l", " ", "u", "s">>
T_TOP == <<"T", "o", "p">>
T_HUB == <<"H", "u", "b", " ", "S", "e", "r", "v", "i", "c", "e">>
U1 == <<"h", "t", "t", "p", "s", ":", "/", "/", "x", ".", "c", "a", "/", "r", "f", "p", "/", "1">>
U2 == <<"h", "t", "t", "p", "s", ":", "/", "/", "x", ".", "c", "a", "/", "r", "f", "p", "/", "2">>
U3 == <<"h", "t", "t", "p", "s", ":", "/", "/", "x", ".", "c", "a", "/", "r", "f", "p", "/", "3">>
U4 == <<"h", "t", "t", "p", "s", ":", "/", "/", "x", ".", "c", "a", "/", "r", "f", "p", "/", "4">>
U_ROOF == <<"h", "t", "t", "p", "s", ":", "/", "/", "x", ".", "c", "a", "/", "r", "f", "p", "/", "R", "o", "o", "f", "i", "n", "g">>
U_LOGIN == <<"h", "t", "t", "p", "s", ":", "/", "/", "x", ".", "c", "a", "/", "L", "o", "g", "i", "n">>
U_MAIL == <<"m", "a", "i", "l", "t", "o", ":", "a", "@", "x", ".", "c", "a">>
U_TOP == <<"h", "t", "t", "p", "s", ":", "/", "/", "x", ".", "c", "a", "/", "r", "f", "p", "#", "t", "o", "p">>
K_RFP == <<"r", "f", "p">>
K_ROAD == <<"R", "o", "a", "d">>
K_LMS == <<"l", "m", "s">>

Anchor(text, href) == [text |-> text, href |-> href]

PageLinks ==
    { Anchor(T_PORTAL, U1), Anchor(T_ROAD, U2), Anchor(T_SNOW, U3),
      Anchor(<<>>, U_ROOF), Anchor(T_LMS, U1), Anchor(T_LOGIN, U_LOGIN),
      Anchor(T_MAIL, U_MAIL), Anchor(T_TOP, U_TOP), Anchor(T_HUB, U4) }

Pages ==
    { [ok |-> FALSE, links |-> <<>>] }
    \cup { [ok |-> TRUE, links |-> l] : l \in SeqsUpTo(PageLinks, MaxLinks) }

FetchSources ==
    { [name |-> "Example", url |-> "https://x.ca/rfp", include_keywords |-> inc,
       exclude_keywords |-> exc] :
          inc \in { <<>>, <<K_RFP>>, <<K_ROAD>>, <<K_LMS, K_ROAD>> },
          exc \in { <<>>, <<K_LMS>> } }

\* the title the loop body gives a link
TitleOf(a) == IF a.text # <<>> THEN a.text ELSE a.href

FetchCall(source, page) ==
    [fn |-> "fetch_source", source |-> source, page |-> page,
     trade |-> [k \in 1..Len(page.links) |-> trade_drop(TitleOf(page.links[k]))],
     result |-> fetch_source(source, page)]

InitFetch ==
    /\ pc = "idle"
    /\ call = IdleCall
    /\ seen = <<>>
    /\ seen_file = <<>>
    /\ run = <<>>
    /\ ncalls = 0

\* items = fetch_source(source)
FetchSource ==
    /\ pc = "idle"
    /\ \E source \in FetchSources, page \in Pages :
          call' = FetchCall(source, page)
    /\ pc' = "done"
    /\ UNCHANGED <<seen, seen_file, run, ncalls>>

NextFetch == FetchSource

SpecFetch == InitFetch /\ [][NextFetch]_vars

(***************************************************************************)
(* main, load_seen and save_seen.  seen.json is [kind, val]:               *)
(*   kind = "absent"      SEEN_PATH.exists() is False                      *)
(*   kind = "unreadable"  SEEN_PATH.open raises OSError                    *)
(*   kind = "not_json"    json.load raises JSONDecodeError                 *)
(*   kind = "json"        json.load gives val                              *)
(* A run of main is MainStart, one MainLoopBody per source, MainFinish;    *)
(* an exception that main lets through ends the run with pc = "crashed".   *)
(***************************************************************************)
NoValue == [t |-> "none", m |-> <<>>]
EmptyStore == Store(<<>>)

FileOf(kind) == [kind |-> kind, val |-> NoValue]
JsonFile(val) == [kind |-> "json", val |-> val]

\* what load_seen returns, or that it raises
load_seen(file) ==
    IF file.kind = "absent" THEN [raised |-> FALSE, seen |-> EmptyStore]
    ELSE IF file.kind = "unreadable" THEN [raised |-> TRUE, seen |-> NoValue]
    ELSE IF file.kind = "not_json" THEN [raised |-> FALSE, seen |-> EmptyStore]
    ELSE [raised |-> FALSE, seen |-> file.val]

\* the file save_seen leaves
save_seen(seen_) == JsonFile(seen_)

(***************************************************************************)
(* Inputs of main.                                                         *)
(***************************************************************************)
MainNames == {"Example", "Other"}

MainSource(n) ==
    [name |-> n, url |-> "https://x.ca/rfp", include_keywords |-> <<>>,
     exclude_keywords |-> <<>>]

\* config["sources"]: one source, or two with distinct names
SourceLists ==
    { <<MainSource("Example")>>,
      <<MainSource("Example"), MainSource("Other")>>,
      <<MainSource("Other"), MainSource("Example")>> }

MainLinks == { Anchor(T_PORTAL, U1), Anchor(T_HUB, U4), Anchor(T_ROAD, U2) }

\* the URLs of MainLinks that fetch_source lets through
MainUrls == {U1, U4}

MainPages ==
    { [ok |-> FALSE, links |-> <<>>] }
    \cup { [ok |-> TRUE, links |-> l] : l \in SeqsUpTo(MainLinks, MaxLinks) }

\* the contents seen.json can have when the first run starts
NumberEntry == [t |-> "number", urls |-> <<>>]

InitialFiles ==
    { FileOf(k) : k \in {"absent", "unreadable", "not_json"} }
    \cup { JsonFile([t |-> x, m |-> <<>>]) : x \in {"array", "null"} }
    \cup UNION { { JsonFile(Store(m)) :
                     m \in [names -> {NumberEntry} \cup
                              {ListEntry(u) : u \in SeqsUpTo(MainUrls, MaxSeen)}] } :
                 names \in SUBSET MainNames }

\* one verdict per index, in index order, keep as the pattern says
Verdicts(pattern) ==
    [kind |-> "json",
     data |-> [t |-> "object", has_results |-> TRUE,
               results |-> [t |-> "list",
                            recs |-> [k \in 1..Len(pattern) |->
                                [t |-> "object", has_index |-> TRUE, index |-> k - 1,
                                 keep |-> pattern[k], reason |-> ""]]]]]

\* the classifier answers main meets for a batch of n candidates
MainBackends(n) ==
    { [kind |-> k, data |-> NoData] : k \in {"transport_error", "not_json"} }
    \cup { [kind |-> "json", data |-> NoData],
           [kind |-> "json",
            data |-> [t |-> "object", has_results |-> TRUE,
                      results |-> [t |-> "null", recs |-> <<>>]]] }
    \cup { Verdicts(pattern) : pattern \in [1..n -> BOOLEAN] }

NoBackend == [kind |-> "none", data |-> NoData]

\* the classifier as a run finds it: switched off in the YAML, or switched on
\* with a key and the SDK and one of the answers
MainEnv == [LLM_ENABLED |-> EnvUnset, OPENAI_API_KEY |-> TRUE]

MainWorlds(n) ==
    { [llm_cfg |-> [enabled |-> "False", rationale |-> FALSE], backend |-> NoBackend] }
    \cup { [llm_cfg |-> [enabled |-> "True", rationale |-> FALSE], backend |-> b] :
               b \in MainBackends(n) }

\* what fetch_source(source) can give main: whether the request failed, and
\* the value returned, for every page
MainFetches ==
    [n \in MainNames |->
        { [failed |-> ~page.ok, items |-> fetch_source(MainSource(n), page)] :
              page \in MainPages }]

(***************************************************************************)
(* The state of main.  run holds the configuration (sources), the locals   *)
(* of the run in progress (i, new_items_by_source), what the run met       *)
(* (file_at_start, loaded, submitted, crashed_in) and, over the completed  *)
(* runs since the last forced refresh, how many of them handed each URL of *)
(* each source to llm_filter (classified) and the URLs they reported.      *)
(***************************************************************************)
ZeroCounts == [n \in MainNames |-> [u \in MainUrls |-> 0]]
NoUrls == [n \in MainNames |-> {}]

\* no run in progress: the process holds no locals
NoRun(sources, classified, reported) ==
    [sources |-> sources, i |-> 0, new_items_by_source |-> <<>>,
     file_at_start |-> FileOf("absent"), loaded |-> NoValue,
     submitted |-> NoUrls, crashed_in |-> "", classified |-> classified,
     reported |-> reported]

Init ==
    /\ pc = "start"
    /\ call = IdleCall
    /\ seen = NoValue
    /\ seen_file \in InitialFiles
    /\ \E sources \in SourceLists : run = NoRun(sources, ZeroCounts, NoUrls)
    /\ ncalls = 0

\* lines 361-388: a run starts, with or without --force-refresh; the
\* configuration loads; the SeenStore is loaded
MainStart ==
    /\ pc \in {"start", "done", "crashed"}
    /\ ncalls < MaxRuns
    /\ \E force_refresh \in BOOLEAN :
       \E file \in {IF force_refresh THEN FileOf("absent") ELSE seen_file} :
       \E l \in {load_seen(file)} :
          /\ seen_file' = file
          /\ seen' = l.seen
          /\ pc' = IF l.raised THEN "crashed" ELSE "loop"
          /\ run' = [sources |-> run.sources, i |-> 1,
                     new_items_by_source |-> <<>>,
                     file_at_start |-> seen_file, loaded |-> l.seen,
                     submitted |-> NoUrls,
                     crashed_in |-> IF l.raised THEN "load_seen" ELSE "",
                     \* a forced refresh starts a new sequence of runs
                     classified |-> IF force_refresh THEN ZeroCounts
                                    ELSE run.classified,
                     reported |-> IF force_refresh THEN NoUrls
                                  ELSE run.reported]
    /\ call' = IdleCall
    /\ ncalls' = ncalls + 1

\* what the loop body did for a source: the fetched URLs it skipped as seen
\* and the candidates it handed to llm_filter
LoopCall(source, fetch_failed, items, d, r) ==
    [fn |-> "loop_body", source |-> source.name, fetch_failed |-> fetch_failed,
     skipped |-> UrlsIn(items) \ UrlsIn(d.new_items),
     new_items |-> d.new_items, filtered |-> r.ret]

\* new_items_by_source[name] = filtered
PutItems(by_source, name, filtered) ==
    [n \in DOMAIN by_source \cup {name} |->
        IF n = name THEN filtered ELSE by_source[n]]

\* the run ends in an exception raised in `where`
Crashes(where) ==
    /\ pc' = "crashed"
    /\ run' = [run EXCEPT !.crashed_in = where]

\* lines 390-397: the body of the loop for sources[i].  The bound names are
\* the locals of main: items, new_items (in d), filtered (in r).
MainLoopBody ==
    /\ pc = "loop"
    /\ run.i <= Len(run.sources)
    /\ \E source \in {run.sources[run.i]} :
       \E fetched \in MainFetches[source.name] :
       \E items \in {fetched.items} :
       \E d \in {diff_new_items(source, items, seen)} :
       \E after \in SeenAfter(seen, source, d) :
       \E world \in IF d.raised \/ d.new_items = <<>> THEN {0}
                    ELSE MainWorlds(Len(d.new_items)) :
       \E r \in {IF d.raised \/ d.new_items = <<>> THEN Returned(<<>>, FALSE)
                 ELSE llm_filter(d.new_items, world.llm_cfg, MainEnv, TRUE,
                                 world.backend)} :
          /\ call' = LoopCall(source, fetched.failed, items, d, r)
          /\ seen' = after
          /\ IF d.raised THEN Crashes("diff_new_items")
             ELSE IF d.new_items = <<>>
             THEN /\ pc' = pc
                  /\ run' = [run EXCEPT !.i = run.i + 1]
             ELSE IF r.raised
             THEN /\ pc' = "crashed"
                  /\ run' = [run EXCEPT
                               !.crashed_in = "llm_filter",
                               !.submitted[source.name] = @ \cup UrlsIn(d.new_items)]
             ELSE /\ pc' = pc
                  /\ run' = [run EXCEPT
                               !.i = run.i + 1,
                               !.submitted[source.name] = @ \cup UrlsIn(d.new_items),
                               !.new_items_by_source =
                                   IF r.ret # <<>>
                                   THEN PutItems(@, source.name, r.ret)
                                   ELSE @]
    /\ UNCHANGED <<seen_file, ncalls>>

\* the URLs of a report, by source
ReportedUrls(by_source) ==
    [n \in MainNames |-> IF n \in DOMAIN by_source THEN UrlsIn(by_source[n]) ELSE {}]

\* lines 399-406: save_seen(seen), the report, and the process ends, its
\* locals with it
MainFinish ==
    /\ pc = "loop"
    /\ run.i > Len(run.sources)
    /\ seen_file' = save_seen(seen)
    /\ pc' = "done"
    /\ run' = NoRun(run.sources,
                    [n \in MainNames |-> [u \in MainUrls |->
                        run.classified[n][u]
                            + IF u \in run.submitted[n] THEN 1 ELSE 0]],
                    [n \in MainNames |->
                        run.reported[n]
                            \cup ReportedUrls(run.new_items_by_source)[n]])
    /\ seen' = NoValue
    /\ call' = IdleCall
    /\ UNCHANGED ncalls

Next == MainStart \/ MainLoopBody \/ MainFinish

Spec == Init /\ [][Next]_vars

(***************************************************************************)
(* Claims about llm_filter (specification SpecLlm).                        *)
(***************************************************************************)
IsLlmCall == call.fn = "llm_filter"

\* the override holds one of the eight tokens, compared case-insensitively
LiteralToken(var) == var.set /\ Lower(var.raw) \in (TRUTHY_ENV \cup FALSY_ENV)

\* the same, with whitespace around the token ignored
PaddedToken(var) == var.set /\ Lower(Strip(var.raw)) \in (TRUTHY_ENV \cup FALSY_ENV)

Disabled == IsLlmCall /\ ~call.enabled

\* C7 as stated: a token is recognized when it is, case-insensitively, one of
\* 1/true/yes/on/0/false/no/off; a recognized token decides the flag, any other
\* value or no value leaves the static 'enabled' setting to decide it; a false
\* flag makes llm_filter return its input without calling the model.
C7_LiteralTokenPrecedence ==
    IsLlmCall =>
        LET var == call.env.LLM_ENABLED
        IN  /\ LiteralToken(var) => (call.enabled <=> (Lower(var.raw) \in TRUTHY_ENV))
            /\ ~LiteralToken(var) => (call.enabled <=> (call.llm_cfg.enabled = "True"))
            /\ ~call.enabled => call.result = Returned(call.items, FALSE)

\* C7 amended: as C7, a token being recognized case-insensitively and with
\* leading and trailing whitespace ignored.
C7_PaddedTokenPrecedence ==
    IsLlmCall =>
        LET var == call.env.LLM_ENABLED
        IN  /\ PaddedToken(var) =>
                   (call.enabled <=> (Lower(Strip(var.raw)) \in TRUTHY_ENV))
            /\ ~PaddedToken(var) => (call.enabled <=> (call.llm_cfg.enabled = "True"))
            /\ ~call.enabled => call.result = Returned(call.items, FALSE)

\* C7 witness: a recognized override "off" beats enabled: true, and the disabled
\* gate (not the empty list, the key or the SDK) is what returns the input.
C7_Witness ==
    /\ Disabled
    /\ PaddedToken(call.env.LLM_ENABLED)
    /\ call.llm_cfg.enabled = "True"
    /\ call.items # <<>>
    /\ call.env.OPENAI_API_KEY
    /\ call.sdk
    /\ call.result = Returned(call.items, FALSE)

\* the classifier call failed in transport, its answer is not JSON, or the
\* parsed answer is malformed
FailedAnswer(backend) ==
    \/ backend.kind \in {"transport_error", "not_json"}
    \/ /\ backend.kind = "json"
       /\ \/ backend.data.t # "object"
          \/ ~backend.data.has_results
          \/ backend.data.results.t # "list"
          \/ \E rec \in Range(backend.data.results.recs) : rec.t # "object"

\* C2: llm_filter fails open: when the classifier call fails in transport, the
\* response cannot be parsed or the parsed response is malformed, it returns
\* the original input list unchanged.
C2_FailOpen ==
    (IsLlmCall /\ call.result.called /\ FailedAnswer(call.backend)) =>
        (~call.result.raised /\ call.result.ret = call.items)

\* a well-formed batch: a JSON object whose 'results' is a list holding exactly
\* one verdict for every submitted index
WellFormedBatch(backend, n) ==
    /\ backend.kind = "json"
    /\ backend.data.t = "object"
    /\ backend.data.has_results
    /\ backend.data.results.t = "list"
    /\ LET recs == backend.data.results.recs
       IN  /\ Len(recs) = n
           /\ \A rec \in Range(recs) : rec.t = "object" /\ rec.has_index
           /\ \A k \in 0..(n - 1) : \E rec \in Range(recs) : rec.index = k

KeptIndex(recs, k) == \E rec \in Range(recs) : rec.index = k /\ rec.keep

\* the candidates with a keep=true verdict, in submission order
RECURSIVE KeptInOrder(_, _, _)
KeptInOrder(items, recs, k) ==
    IF k > Len(items) THEN <<>>
    ELSE (IF KeptIndex(recs, k - 1) THEN <<items[k]>> ELSE <<>>)
         \o KeptInOrder(items, recs, k + 1)

\* a returned candidate without its 'reason' annotation
Bare(item) == [title |-> item.title, url |-> item.url]

\* C3: on a well-formed batch of verdicts llm_filter returns exactly the
\* candidates whose verdict has keep=true, each once, in submission order.
C3_SubmissionOrder ==
    (IsLlmCall /\ call.result.called
        /\ WellFormedBatch(call.backend, Len(call.items))) =>
        /\ ~call.result.raised
        /\ [k \in 1..Len(call.result.ret) |-> Bare(call.result.ret[k])]
               = KeptInOrder(call.items, call.backend.data.results.recs, 1)

(***************************************************************************)
(* Claims about diff_new_items (specification SpecDiff).                   *)
(***************************************************************************)
IsDiffCall == call.fn = "diff_new_items"

\* the URLs recorded for a source in a store
UrlsOf(store, name) ==
    IF name \in DOMAIN store.m THEN Range(store.m[name].urls) ELSE {}

\* C1: a URL that is in the SeenStore entry of source S when a call for S
\* starts is not in the list the call returns, after any calls before it.
C1_SeenNeverNew ==
    IsDiffCall =>
        UrlsIn(call.ret) \cap UrlsOf(call.before, call.source.name) = {}

\* C1 witness: the call was handed a URL its entry already held, next to a new
\* one, after the entry had been written by an earlier call.
C1_Witness ==
    /\ IsDiffCall
    /\ call.ret # <<>>
    /\ UrlsIn(call.items) \cap UrlsOf(call.before, call.source.name) # {}
    /\ call.before \notin DiffStores

\* C5: calling diff_new_items again with the same source and candidate list,
\* on the store as the first call left it, returns the empty list and leaves
\* the store as it is.
C5_SecondCallEmpty ==
    (IsDiffCall /\ call.repeat) =>
        (call.ret = <<>> /\ ~call.write /\ call.after = call.before)

\* C5 witness: the repeated call follows a call that returned new items.
C5_Witness == IsDiffCall /\ call.repeat /\ call.first_ret # <<>>

\* C6: when the call returns a non-empty list the entry of S is afterwards, as
\* a set, the old entry united with the URLs of the full candidate list, and
\* no other entry changes; when it returns the empty list nothing is written.
C6_UnionOfFullList ==
    IsDiffCall =>
        /\ call.ret # <<>> =>
              /\ call.write
              /\ UrlsOf(call.after, call.source.name)
                     = UrlsOf(call.before, call.source.name) \cup UrlsIn(call.items)
              /\ \A n \in DOMAIN call.before.m \ {call.source.name} :
                     n \in DOMAIN call.after.m /\ call.after.m[n] = call.before.m[n]
        /\ call.ret = <<>> => (~call.write /\ call.after = call.before)

\* C6 witness: a call that returned some but not all of its candidates.
C6_Witness ==
    /\ IsDiffCall
    /\ call.ret # <<>>
    /\ UrlsIn(call.ret) # UrlsIn(call.items)
    /\ UrlsOf(call.before, call.source.name) \ UrlsIn(call.items) # {}

(***************************************************************************)
(* Claims about fetch_source and trade_drop (specification SpecFetch).     *)
(***************************************************************************)
IsFetchCall == call.fn = "fetch_source"

\* term[q..] is read in title from position p on: letters compare without
\* regard to case, a space of the term stands for a run of whitespace
RECURSIVE TermAt(_, _, _, _)
TermAt(title, p, term, q) ==
    IF q > Len(term) THEN TRUE
    ELSE IF p > Len(title) THEN FALSE
    ELSE IF term[q] = " "
         THEN IsSpace(title[p]) /\ (\/ TermAt(title, p + 1, term, q + 1)
                                    \/ TermAt(title, p + 1, term, q))
         ELSE LowerChar(title[p]) = term[q] /\ TermAt(title, p + 1, term, q + 1)

\* the title contains a denylisted trade term
HasTradeTerm(title) ==
    \E term \in Range(TRADE_DROP_WORDS), p \in 1..Len(title) :
        TermAt(title, p, term, 1)

\* C8: whatever the source's include and exclude keywords, no candidate that
\* fetch_source returns has a title containing a denylisted trade term, and
\* trade_drop rejects no title that contains none of them.
C8_TradeDenylist ==
    IsFetchCall =>
        /\ \A item \in Range(call.result) : ~HasTradeTerm(item.title)
        /\ \A k \in 1..Len(call.page.links) :
               call.trade[k] => HasTradeTerm(TitleOf(call.page.links[k]))

\* C8 witness: a link whose title holds a trade term and matches an include
\* keyword is left out, and a link returned next to it was not rejected.
C8_Witness ==
    /\ IsFetchCall
    /\ call.source.include_keywords = <<K_LMS, K_ROAD>>
    /\ call.source.exclude_keywords = <<>>
    /\ call.page.links = <<Anchor(T_ROAD, U2), Anchor(T_LMS, U1)>>
    /\ call.trade = <<TRUE, FALSE>>
    /\ Len(call.result) = 1
    /\ call.result[1].title = T_LMS

(***************************************************************************)
(* Claims about main (specification Spec).                                 *)
(***************************************************************************)
\* C4: once the configuration has loaded, no failure of fetch_source or of
\* llm_filter on a source ends the run: main goes on to the sources after it
\* and to save_seen and format_report.
C4_StageFailureNeverEndsRun ==
    ~(pc = "crashed" /\ run.crashed_in \in {"fetch_source", "llm_filter"})

\* seen.json holds a mapping from source names to lists of URLs
IsSeenMapping(val) ==
    val.t = "object" /\ \A n \in DOMAIN val.m : val.m[n].t = "list"

\* seen.json is absent, unreadable, not JSON, or JSON of another shape
CorruptFile(file) ==
    file.kind \in {"absent", "unreadable", "not_json"}
        \/ (file.kind = "json" /\ ~IsSeenMapping(file.val))

\* C9: when seen.json is absent, unreadable, not valid JSON, or valid JSON
\* that is no mapping from source names to lists of URLs, the run starts from
\* an empty SeenStore and no error of load_seen or diff_new_items ends it.
C9_CorruptFileStartsEmpty ==
    (pc \in {"loop", "crashed"} /\ CorruptFile(run.file_at_start)) =>
        /\ run.loaded = EmptyStore
        /\ ~(pc = "crashed" /\ run.crashed_in \in {"load_seen", "diff_new_items"})

\* the URLs of source n that a completed run has handed to llm_filter
Classified(n) == {u \in MainUrls : run.classified[n][u] >= 1}

\* C10: over completed runs without force-refresh every URL of a source is
\* handed to llm_filter in at most one run; once a completed run has handed it
\* over, kept or dropped, it is saved in seen.json and a later run neither
\* hands it to llm_filter nor reports it.
C10_ClassifiedInOneRun ==
    \A n \in MainNames :
        /\ \A u \in MainUrls : run.classified[n][u] <= 1
        /\ Classified(n) # {} =>
               /\ seen_file.kind = "json"
               /\ seen_file.val.t = "object"
               /\ Classified(n) \subseteq UrlsOf(seen_file.val, n)
        /\ run.submitted[n] \cap Classified(n) = {}
        /\ ReportedUrls(run.new_items_by_source)[n] \cap Classified(n) = {}

\* C10 witness: the second run fetches again a URL that the first run handed
\* to llm_filter and did not report, and skips it as seen.
C10_Witness ==
    /\ pc = "loop"
    /\ ncalls = 2
    /\ call.fn = "loop_body"
    /\ \E u \in call.skipped :
          /\ run.classified[call.source][u] = 1
          /\ u \notin run.reported[call.source]

====
